---------------------------- MODULE Spec2Model ----------------------------
(***************************************************************************)
(* A model of spicedmoon (GOA-UVa/spicedmoon): the geometry engine of      *)
(* core.py / geoselenic.py / angular.py, the frame change of               *)
(* coordinates.py, the synthetic observer series of geotic.py / selenic.py *)
(* / basics.py and the kernel load / clear life cycle around them.         *)
(*                                                                         *)
(* Representation.  An angle is the integer number of degrees of arc it    *)
(* measures, whichever unit the code holds it in (spice.rpd() / dpr() only *)
(* change the unit of the same angle).  Epochs (ET seconds) are integers.  *)
(* Vectors are triples of integers; rotation matrices have integer         *)
(* entries (quarter turns), so that R.v is computed exactly.               *)
(***************************************************************************)
EXTENDS Integers, Sequences, FiniteSets, TLC

VARIABLES
    gIn,      \* geometry: what the service answers for one epoch, and the call's arguments
    gOut,     \* geometry: what get_moon_data returned for gIn
    xOut,     \* geometry: the phase get_moon_datas_xyzs keeps for gIn
    zOut,     \* geometry: what get_zn_az returned for gIn
    sBuilder, \* series: "earth" (_create_earth_point_kernel) or "moon"
    sTimes,   \* series: utc_times, as the builder receives them
    sIdx,     \* series: the index of the next utc_time of the loop
    sEts,     \* series: ets so far
    cIn,      \* states: the arguments of _calculate_states
    cOut,     \* states: what _calculate_states returned
    fIn,      \* frames: the arguments of _change_frames
    fOut,     \* frames: what _change_frames returned and which queries it made
    pc,           \* batch: where the running call stands
    call,         \* batch: the arguments of the running (or last) call
    calls,        \* batch: the number of calls made so far
    faults,       \* batch: the service failures still to come
    basicKernels, \* batch: the module-level list constants.BASIC_KERNELS
    loaded,       \* batch: the kernels the service holds (furnsh / kclear)
    file,         \* batch: the custom kernel file on disk
    utc_times,    \* batch: dt_to_str(times)
    stage,        \* batch: "builder" (_create_*_point_kernel) or "id" (get_moon_datas_id)
    kq,           \* batch: the kernel paths the running loop still has to load
    fs,           \* batch: furnsh_safer: its position and what it did so far
    idx,          \* batch: the index of the next utc_time of get_moon_datas_id
    moon_datas,   \* batch: the results appended so far
    ret,          \* batch: what the call returned or raised
    trace,        \* batch: the operations on the service and on the files the running call has made
    kIn,      \* coordinates: a geodetic point (lat, lon, alt, body) or an observer latitude
    kRect,    \* coordinates: what to_rectangular_same_frame returned for kIn
    kLlh,     \* coordinates: what to_planetographic_same_frame returned for kRect
    kColat    \* coordinates: the colatitudes computed from the observer latitude

geomVars == <<gIn, gOut, xOut, zOut>>

seriesVars == <<sBuilder, sTimes, sIdx, sEts>>

statesVars == <<cIn, cOut>>

framesVars == <<fIn, fOut>>

batchVars ==
    <<pc, call, calls, faults, basicKernels, loaded, file, utc_times, stage, kq, fs,
      idx, moon_datas, ret, trace>>

coordsVars == <<kIn, kRect, kLlh, kColat>>

vars == <<geomVars, seriesVars, statesVars, framesVars, batchVars, coordsVars>>

-----------------------------------------------------------------------------
(* Integer helpers *)

Abs(x) == IF x < 0 THEN -x ELSE x

Near(c) == {c - 1, c, c + 1}

-----------------------------------------------------------------------------
(* Arguments that a caller may leave out, pass as None, or pass as a number *)

Num(n) == [tag |-> "num", v |-> n]

Omitted == [tag |-> "omitted", v |-> 0]

NoneArg == [tag |-> "None", v |-> 0]

\* Python binds a parameter that was left out to its default value.
BindDefault(arg, default) == IF arg.tag = "omitted" THEN default ELSE arg

-----------------------------------------------------------------------------
(* Quarter-turn trigonometry: the angles the model rotates by are multiples *)
(* of 90 degrees, where sine and cosine are integers.                       *)

Mod360(a) == a % 360

CosDeg(a) ==
    CASE Mod360(a) = 0 -> 1
      [] Mod360(a) = 90 -> 0
      [] Mod360(a) = 180 -> -1
      [] Mod360(a) = 270 -> 0

SinDeg(a) ==
    CASE Mod360(a) = 0 -> 0
      [] Mod360(a) = 90 -> 1
      [] Mod360(a) = 180 -> 0
      [] Mod360(a) = 270 -> -1

IsQuarterTurn(a) == Mod360(a) \in {0, 90, 180, 270}

\* spice.rotate: the matrix [a]_axis that rotates the coordinate frame by a
\* about the axis (rows are tuples).
RotMat(a, axis) ==
    CASE axis = 1 -> << <<1, 0, 0>>,
                        <<0, CosDeg(a), SinDeg(a)>>,
                        <<0, -SinDeg(a), CosDeg(a)>> >>
      [] axis = 2 -> << <<CosDeg(a), 0, -SinDeg(a)>>,
                        <<0, 1, 0>>,
                        <<SinDeg(a), 0, CosDeg(a)>> >>
      [] axis = 3 -> << <<CosDeg(a), SinDeg(a), 0>>,
                        <<-SinDeg(a), CosDeg(a), 0>>,
                        <<0, 0, 1>> >>

MatMul(A, B) ==
    [i \in 1..3 |-> [j \in 1..3 |->
        A[i][1] * B[1][j] + A[i][2] * B[2][j] + A[i][3] * B[3][j]]]

\* spice.mxv: M . v
mxv(M, v) == [i \in 1..3 |-> M[i][1] * v[1] + M[i][2] * v[2] + M[i][3] * v[3]]

\* spice.mtxv: transpose(M) . v
mtxv(M, v) == [i \in 1..3 |-> M[1][i] * v[1] + M[2][i] * v[2] + M[3][i] * v[3]]

\* spice.eul2m(angle3, angle2, angle1, axis3, axis2, axis1)
eul2m(angle3, angle2, angle1, axis3, axis2, axis1) ==
    MatMul(RotMat(angle3, axis3), MatMul(RotMat(angle2, axis2), RotMat(angle1, axis1)))

VecSub(a, b) == [i \in 1..3 |-> a[i] - b[i]]

VecNeg(a) == [i \in 1..3 |-> -a[i]]

\* atan2 in degrees, on the directions of the quarter-turn grid and its diagonals
Atan2Deg(y, x) ==
    CASE y = 0 /\ x >= 0 -> 0
      [] y = 0 /\ x < 0 -> 180
      [] x = 0 /\ y > 0 -> 90
      [] x = 0 /\ y < 0 -> -90
      [] x > 0 /\ y = x -> 45
      [] x > 0 /\ y = -x -> -45
      [] x < 0 /\ y = -x -> 135
      [] x < 0 /\ y = x -> -135

\* spice.reclat: <<longitude, latitude>> of a vector; the zero vector gives <<0, 0>>
reclat(v) ==
    LET lon == Atan2Deg(v[2], v[1])
        lat == CASE v[3] = 0 -> 0
                 [] v[1] = 0 /\ v[2] = 0 /\ v[3] > 0 -> 90
                 [] v[1] = 0 /\ v[2] = 0 /\ v[3] < 0 -> -90
                 [] v[3] # 0 /\ v[3] * v[3] = v[1] * v[1] + v[2] * v[2] ->
                        IF v[3] > 0 THEN 45 ELSE -45
    IN  <<lon, lat>>

-----------------------------------------------------------------------------
(* core.get_moon_data: the angular post-processing of one epoch *)

limit_lat == 90

limit_lon == 180

\* an `if` in the place of the `while` of core.py:119
wrap_down_mut(lon_obs, steps) ==
    IF lon_obs > limit_lon
    THEN [lon |-> lon_obs - limit_lon * 2, steps |-> steps + 1]
    ELSE [lon |-> lon_obs, steps |-> steps]

\* core.py:119-120, one iteration per unfolding; .steps counts the iterations
RECURSIVE wrap_down(_, _)
wrap_down(lon_obs, steps) ==
    IF lon_obs > limit_lon
    THEN wrap_down(lon_obs - limit_lon * 2, steps + 1)
    ELSE [lon |-> lon_obs, steps |-> steps]

\* core.py:121-122
RECURSIVE wrap_up(_, _)
wrap_up(lon_obs, steps) ==
    IF lon_obs < -limit_lon
    THEN wrap_up(lon_obs + limit_lon * 2, steps + 1)
    ELSE [lon |-> lon_obs, steps |-> steps]

\* both loops of core.py:119-122, in the order of the code
wrap_lon(lon_obs) ==
    LET d == wrap_down(lon_obs, 0)
    IN  wrap_up(d.lon, d.steps)

\* the reflection without its `elif` branch
reflect_lat_mut(lat_obs, lon_obs) ==
    IF lat_obs > limit_lat
    THEN <<limit_lat + (limit_lat - lat_obs), lon_obs - limit_lon>>
    ELSE <<lat_obs, lon_obs>>

\* the reflection with 180 - lat on either side
reflect_lat_south_mut(lat_obs, lon_obs) ==
    IF lat_obs > limit_lat \/ lat_obs < -limit_lat
    THEN <<limit_lat + (limit_lat - lat_obs), lon_obs - limit_lon>>
    ELSE <<lat_obs, lon_obs>>

\* core.py:112-117: <<lat_obs, lon_obs>> after the reflection
reflect_lat(lat_obs, lon_obs) ==
    IF lat_obs > limit_lat
    THEN <<limit_lat + (limit_lat - lat_obs), lon_obs - limit_lon>>
    ELSE IF lat_obs < -limit_lat
         THEN <<-limit_lat - (limit_lat + lat_obs), lon_obs + limit_lon>>
         ELSE <<lat_obs, lon_obs>>

\* the comparison of core.py:92 turned around
signed_phase_mut(phase, phase2) == IF phase2 > phase THEN -phase ELSE phase

\* core.py:86-93: the signed phase from the phase at et and at et + 1
signed_phase(phase, phase2) == IF phase2 < phase THEN -phase ELSE phase

\* zenith and azimuth with the azimuth measured as longitude - 180
zenith_azimuth_mut(state_zenith, correct_zenith_azimuth, longitude, colat) ==
    LET rectan_zenith ==
            IF correct_zenith_azimuth
            THEN mtxv(eul2m(-(longitude.v + 180), -colat.v, 0, 3, 2, 3), state_zenith)
            ELSE state_zenith
        ll == reclat(rectan_zenith)
    IN  [zenith |-> 90 - ll[2], azimuth |-> ll[1] - 180]

\* core.py:70-80: zenith and azimuth of the (possibly rotated) vector
zenith_azimuth(state_zenith, correct_zenith_azimuth, longitude, colat) ==
    LET rectan_zenith ==
            IF correct_zenith_azimuth
            THEN LET lon_rad == longitude.v + 180
                     colat_rad == colat.v
                     bf2tp == eul2m(-lon_rad, -colat_rad, 0, 3, 2, 3)
                 IN  mtxv(bf2tp, state_zenith)
            ELSE state_zenith
        ll == reclat(rectan_zenith)
    IN  [zenith |-> 90 - ll[2], azimuth |-> 180 - ll[1]]

\* core.get_moon_data, given what the service answers at utc_time (svc).  The
\* parameters longitude and colat default to 0.
get_moon_data(svc, correct_zenith_azimuth, longitude_arg, colat_arg) ==
    LET longitude == BindDefault(longitude_arg, Num(0))
        colat == BindDefault(colat_arg, Num(0))
    IN  IF correct_zenith_azimuth /\ (longitude.tag = "None" \/ colat.tag = "None")
        THEN [status |-> "TypeError"]   \* None + 180, None * rpd()
        ELSE LET za == zenith_azimuth(svc.state_zenith, correct_zenith_azimuth,
                                      longitude, colat)
                 phase == signed_phase(svc.phase, svc.phase2)
                 refl == reflect_lat(svc.lat_obs, svc.lon_obs)
                 lon_obs == wrap_lon(refl[2]).lon
             IN  [status |-> "ok",
                  dist_sun_moon_au |-> svc.dist_sun_moon_au,
                  dist_sun_moon_km |-> svc.dist_sun_moon_km,
                  dist_obs_moon |-> svc.dist_obs_moon,
                  lon_sun_rad |-> svc.lon_sun_rad,
                  lat_sun_rad |-> svc.lat_sun_rad,
                  lat_obs |-> refl[1],
                  lon_obs |-> lon_obs,
                  mpa_deg |-> phase,
                  azimuth |-> za.azimuth,
                  zenith |-> za.zenith]

\* geoselenic.py:241-243: the phase get_moon_datas_xyzs keeps, from md.mpa_deg
\* and md2.mpa_deg
xyzs_signed_phase(md_mpa_deg, md2_mpa_deg) ==
    IF md2_mpa_deg < md_mpa_deg THEN -md_mpa_deg ELSE md_mpa_deg


\* angular.get_zn_az: longitude and colat default to None
get_zn_az(state_pos_zenith, correct_rotating, longitude_arg, colat_arg) ==
    LET longitude == BindDefault(longitude_arg, NoneArg)
        colat == BindDefault(colat_arg, NoneArg)
    IN  IF correct_rotating /\ (longitude.tag = "None" \/ colat.tag = "None")
        THEN [status |-> "ValueError"]
        ELSE LET rotated ==
                     IF correct_rotating
                     THEN mtxv(eul2m(-(longitude.v + 180), -colat.v, 0, 3, 2, 3),
                               state_pos_zenith)
                     ELSE state_pos_zenith
                 ll == reclat(rotated)
             IN  [status |-> "ok", zenith |-> 90 - ll[2], azimuth |-> 180 - ll[1]]

-----------------------------------------------------------------------------
(* Time.  Epochs and UTC instants are counted in ticks, TicksPerSecond of  *)
(* them to the second, so that two requested epochs may lie less than one  *)
(* second apart; the durations the code writes are in seconds.             *)

TicksPerSecond == 2

Sec(seconds) == seconds * TicksPerSecond

\* ET - UTC, about 69 s
DeltaET == 69

\* spice.str2et of a valid UTC string
str2et(utc) == utc + Sec(DeltaET)

\* basics.dt_to_str on one element: a datetime [kind |-> "dt", local, tz] is
\* moved to UTC and printed with "%Y-%m-%d %H:%M:%S", which drops the fraction
\* of a second; a string [kind |-> "str", utc] is returned as it is.
dt_to_str_one(dt) ==
    IF dt.kind = "dt"
    THEN LET utc == dt.local - dt.tz
         IN  [kind |-> "str", utc |-> utc - (utc % TicksPerSecond)]
    ELSE dt

dt_to_str(dts) == [i \in 1..Len(dts) |-> dt_to_str_one(dts[i])]

-----------------------------------------------------------------------------
(* Frames.  A frame name is the sequence of its characters; the code tells *)
(* a Moon frame by the substring "MOON".                                    *)

J2000 == <<"J", "2", "0", "0", "0">>

ITRF93 == <<"I", "T", "R", "F", "9", "3">>

IAU_EARTH == <<"I", "A", "U", "_", "E", "A", "R", "T", "H">>

MOON_ME == <<"M", "O", "O", "N", "_", "M", "E">>

IAU_MOON == <<"I", "A", "U", "_", "M", "O", "O", "N">>

MOON == <<"M", "O", "O", "N">>

Frames == {J2000, ITRF93, IAU_EARTH, MOON_ME, IAU_MOON}

\* the body a frame of the catalogue is fixed to
FrameBody(frame) ==
    CASE frame = J2000 -> "none"
      [] frame \in {ITRF93, IAU_EARTH} -> "EARTH"
      [] frame \in {MOON_ME, IAU_MOON} -> "MOON"

\* Python's `sub in s` on strings
Contains(sub, s) ==
    \E i \in 1..(Len(s) - Len(sub) + 1) : SubSeq(s, i, i + Len(sub) - 1) = sub

-----------------------------------------------------------------------------
(* The Ephemeris & Frame Service (SPICE), as a small deterministic world:  *)
(* every body-fixed frame turns by quarter turns, so that every rotation   *)
(* matrix is exact.                                                         *)

Identity3 == << <<1, 0, 0>>, <<0, 1, 0>>, <<0, 0, 1>> >>

Transpose(M) == [i \in 1..3 |-> [j \in 1..3 |-> M[j][i]]]

\* the rotation from J2000 into the frame at epoch et
ToFrame(frame, et) ==
    CASE FrameBody(frame) = "none" -> Identity3
      [] frame = ITRF93 -> RotMat(90 * et, 3)
      [] frame = IAU_EARTH -> RotMat(90 * (et + 1), 3)
      [] frame = MOON_ME -> MatMul(RotMat(90 * (et \div 3), 3), RotMat(90, 1))
      [] frame = IAU_MOON -> MatMul(RotMat(90 * (et \div 3) + 90, 3), RotMat(90, 1))

\* spice.pxform(source_frame, target_frame, et)
pxform(source_frame, target_frame, et) ==
    MatMul(ToFrame(target_frame, et), Transpose(ToFrame(source_frame, et)))

\* the Moon seen from the Earth, in J2000
MoonFromEarthJ2000(et) == mxv(Transpose(RotMat(90 * (et \div 2), 3)), <<60, 0, 20>>)

\* spice.spkpos("MOON", et, frame, "NONE", observer) for the observers EARTH, MOON
spkpos_moon(et, frame, observer) ==
    IF observer = "MOON"
    THEN <<0, 0, 0>>
    ELSE mxv(ToFrame(frame, et), MoonFromEarthJ2000(et))

-----------------------------------------------------------------------------
(* coordinates._change_frames: the value returned and the service queries  *)
(* made, in order.                                                          *)

\* the frame change without its re-centering branch
_change_frames_mut(coords, source_frame, target_frame, et) ==
    [value |-> mxv(pxform(source_frame, target_frame, et), coords),
     queries |-> <<"pxform">>]

_change_frames(coords, source_frame, target_frame, et) ==
    IF ~Contains(MOON, target_frame)
    THEN LET trans_matrix == pxform(source_frame, target_frame, et)
         IN  [value |-> mxv(trans_matrix, coords), queries |-> <<"pxform">>]
    ELSE LET moon_pos_satref == spkpos_moon(et, source_frame, "EARTH")
             rotation == pxform(source_frame, target_frame, et)
             sat_pos_translate == [i \in 1..3 |-> coords[i] - moon_pos_satref[i]]
         IN  [value |-> mxv(rotation, sat_pos_translate),
              queries |-> <<"spkpos", "pxform">>]

-----------------------------------------------------------------------------
(* basics._calculate_states *)

num_coordinates == 3

\* the position pass, basics.py:129-133
states_positions(ets, pos_iau, source_frame, target_frame) ==
    [i \in 1..Len(ets) |-> mxv(pxform(source_frame, target_frame, ets[i]), pos_iau)]

\* a / b where the model keeps it exact
ExactDiv(a, b) == IF a >= 0 THEN a \div b ELSE -((-a) \div b)

\* the velocity pass without the extra point of basics.py:139-142
state_velocity_mut(pos, i, ets, pos_iau, delta_t, source_frame, target_frame) ==
    IF i < Len(ets)
    THEN [c \in 1..num_coordinates |-> ExactDiv(pos[i + 1][c] - pos[i][c], delta_t)]
    ELSE [c \in 1..num_coordinates |-> 0]

\* the velocity written at index i (1-based), basics.py:134-142
state_velocity(pos, i, ets, pos_iau, delta_t, source_frame, target_frame) ==
    IF i < Len(ets)
    THEN [c \in 1..num_coordinates |-> ExactDiv(pos[i + 1][c] - pos[i][c], delta_t)]
    ELSE LET pos_np1 == mxv(pxform(source_frame, target_frame,
                                   ets[Len(ets)] + Sec(delta_t)), pos_iau)
         IN  [c \in 1..num_coordinates |->
                 ExactDiv(pos_np1[c] - pos[Len(ets)][c], delta_t)]

\* basics._calculate_states for a series of at least one epoch; with no epoch
\* ets[-1] raises IndexError
_calculate_states(ets, pos_iau, delta_t, source_frame, target_frame) ==
    IF Len(ets) = 0
    THEN [status |-> "IndexError", states |-> <<>>]
    ELSE LET pos == states_positions(ets, pos_iau, source_frame, target_frame)
         IN  [status |-> "ok",
              states |-> [i \in 1..Len(ets) |->
                  [pos |-> pos[i],
                   vel |-> state_velocity(pos, i, ets, pos_iau, delta_t,
                                          source_frame, target_frame)]]]

-----------------------------------------------------------------------------
(* The sample epochs of geotic._create_earth_point_kernel and              *)
(* selenic._create_moon_point_kernel                                        *)

polynomial_degree == 5

delta_t == 1

min_states_polynomial == polynomial_degree + 1

left_states == min_states_polynomial \div 2

right_states == left_states + (min_states_polynomial % 2)

\* a range that takes its stop value in: start, start + step, ... up to stop
arange_mut(start, stop, step) ==
    LET n == IF stop >= start THEN ((stop - start) \div step) + 1 ELSE 0
    IN  [k \in 1..n |-> start + (k - 1) * step]

\* np.arange(start, stop, step) for step > 0: start, start + step, ... below stop
arange(start, stop, step) ==
    LET n == IF stop > start THEN ((stop - start) + step - 1) \div step ELSE 0
    IN  [k \in 1..n |-> start + (k - 1) * step]

\* the binary search of np.searchsorted(a, v), side "left": a 0-based index
RECURSIVE bisect_left(_, _, _, _)
bisect_left(a, v, lo, hi) ==
    IF lo < hi
    THEN LET mid == (lo + hi) \div 2
         IN  IF a[mid + 1] < v
             THEN bisect_left(a, v, mid + 1, hi)
             ELSE bisect_left(a, v, lo, mid)
    ELSE lo

searchsorted(a, v) == bisect_left(a, v, 0, Len(a))

\* np.insert(a, index, v), index 0-based
np_insert(a, index, v) == SubSeq(a, 1, index) \o <<v>> \o SubSeq(a, index + 1, Len(a))

\* `v in a` on an array
InArray(v, a) == \E i \in 1..Len(a) : a[i] = v

\* the inner loop appending new epochs at the end of ets
RECURSIVE earth_merge_mut(_, _, _)
earth_merge_mut(ets, ets_t, k) ==
    IF k > Len(ets_t)
    THEN ets
    ELSE IF ~InArray(ets_t[k], ets)
         THEN earth_merge_mut(Append(ets, ets_t[k]), ets_t, k + 1)
         ELSE earth_merge_mut(ets, ets_t, k + 1)

\* geotic.py:130-133: the inner loop over ets_t, from its k-th element on
RECURSIVE earth_merge(_, _, _)
earth_merge(ets, ets_t, k) ==
    IF k > Len(ets_t)
    THEN ets
    ELSE IF ~InArray(ets_t[k], ets)
         THEN earth_merge(np_insert(ets, searchsorted(ets, ets_t[k]), ets_t[k]), ets_t, k + 1)
         ELSE earth_merge(ets, ets_t, k + 1)

\* the window of the Earth builder ending at the requested epoch
earth_add_window_mut(ets, utc_time) ==
    LET et0 == str2et(utc_time.utc)
        etprev == et0 - Sec(delta_t * left_states)
        etf == et0 + Sec(delta_t)
        ets_t == arange(etprev, etf, Sec(delta_t))
    IN  earth_merge(ets, ets_t, 1)

\* geotic.py:125-133: one iteration of the loop over utc_times
earth_add_window(ets, utc_time) ==
    LET et0 == str2et(utc_time.utc)
        etprev == et0 - Sec(delta_t * left_states)
        etf == et0 + Sec(delta_t * right_states)
        ets_t == arange(etprev, etf, Sec(delta_t))
    IN  earth_merge(ets, ets_t, 1)

\* selenic.py:139-142
RECURSIVE moon_merge(_, _, _)
moon_merge(ets, ets_t, k) ==
    IF k > Len(ets_t)
    THEN ets
    ELSE IF ~InArray(ets_t[k], ets)
         THEN moon_merge(np_insert(ets, searchsorted(ets, ets_t[k]), ets_t[k]), ets_t, k + 1)
         ELSE moon_merge(ets, ets_t, k + 1)

\* selenic.py:134-142
moon_add_window(ets, utc_time) ==
    LET et0 == str2et(utc_time.utc)
        etprev == et0 - Sec(delta_t * left_states)
        etf == et0 + Sec(delta_t * right_states)
        ets_t == arange(etprev, etf, Sec(delta_t))
    IN  moon_merge(ets, ets_t, 1)

add_window(builder, ets, utc_time) ==
    IF builder = "earth" THEN earth_add_window(ets, utc_time)
    ELSE moon_add_window(ets, utc_time)

\* the whole loop over utc_times[from..]
RECURSIVE build_ets(_, _, _, _)
build_ets(builder, ets, utcs, from) ==
    IF from > Len(utcs)
    THEN ets
    ELSE build_ets(builder, add_window(builder, ets, utcs[from]), utcs, from + 1)

-----------------------------------------------------------------------------
(* The batch entry points: constants, the observer point and what the      *)
(* service answers to get_moon_data's queries.                              *)

\* constants.BASIC_KERNELS as the module is imported
BASIC_KERNELS == <<"naif0011.tls", "de421.bsp">>

\* constants.MOON_KERNELS
MOON_KERNELS == <<"moon_080317.tf">>

\* constants.CUSTOM_KERNEL_NAME
CUSTOM_KERNEL_NAME == "custom.bsp"

EARTH_ID_CODE == 399

\* constants.MOON_ID_CODE
MOON_ID_CODE == 301

\* os.path.join(dir, name)
PathJoin(dir, name) == <<dir, name>>

PathsOf(dir, names) == [i \in 1..Len(names) |-> PathJoin(dir, names[i])]

NoFile == [exists |-> FALSE, seg |-> [n |-> 0]]

Ok(value) == [status |-> "ok", value |-> value]

Raised(error) == [status |-> "raised", error |-> error]

NoRet == [status |-> "none"]

FsIdle == [pos |-> "idle", log |-> <<>>]

\* spice.pgrrec(body, lon, lat, alt, re, f) for the Earth and the Moon, at the
\* latitudes and longitudes of the quarter-turn grid; pol_rad = re * (1 - f)
pgrrec(lon, lat, alt_km, eq_rad, pol_rad) ==
    <<(eq_rad + alt_km) * CosDeg(lat) * CosDeg(lon),
      (eq_rad + alt_km) * CosDeg(lat) * SinDeg(lon),
      (pol_rad + alt_km) * SinDeg(lat)>>

\* geotic._EarthLocation: the radii of the Earth, km
earth_radii == <<6378, 6357>>

\* basics.get_radii_moon(ignore_bodvrd = True), km
moon_radii == <<1738, 1736>>

\* basics.Location.__init__: the states of the observer point
Location(body, lat, lon, altitude, radii, ets, dt, source_frame, target_frame) ==
    LET alt_km == altitude \div 1000
        pos_iau == pgrrec(lon, lat, alt_km, radii[1], radii[2])
    IN  _calculate_states(ets, pos_iau, dt, source_frame, target_frame)

\* the SPK segment spice.spkw09 writes for the observer point
Segment(point_id, center, frame, ets, states) ==
    [n |-> Len(ets), body |-> point_id, center |-> center, frame |-> frame,
     first |-> ets[1], last |-> ets[Len(ets)], degree |-> polynomial_degree,
     states |-> states, epochs |-> ets]

\* what the service answers to the queries of get_moon_data at epoch et
ZenithAt(et) ==
    CASE et % 3 = 0 -> <<0, 0, 1>>
      [] et % 3 = 1 -> <<1, 0, 0>>
      [] et % 3 = 2 -> <<0, -1, 0>>

PhaseAt(et) == Abs(((et * 7) % 360) - 180)

SvcAt(et) ==
    [state_zenith |-> ZenithAt(et),
     phase |-> PhaseAt(et), phase2 |-> PhaseAt(et + Sec(1)),
     lon_obs |-> (et * 37) % 360, lat_obs |-> ((et * 11) % 181) - 90,
     dist_obs_moon |-> 384400 + et,
     dist_sun_moon_km |-> 149600000 + et, dist_sun_moon_au |-> 1,
     lon_sun_rad |-> (et * 5) % 360, lat_sun_rad |-> 1]

\* the observer can be queried at et: its kernel is loaded and covers et
Covered(ld, fl, dir, et) ==
    /\ PathJoin(dir, CUSTOM_KERNEL_NAME) \in ld
    /\ fl.exists /\ fl.seg.n > 0
    /\ fl.seg.first <= et /\ et <= fl.seg.last

\* core.py:201-202: the colatitude and longitude get_moon_datas_id passes on
id_colat(latitude) == 90 - (latitude % 90)

id_lon(longitude) == longitude % 180

-----------------------------------------------------------------------------
(* Values of the variables a specification does not use *)

Str(utc) == [kind |-> "str", utc |-> utc]

SeriesIdle == sBuilder = "earth" /\ sTimes = <<>> /\ sIdx = 1 /\ sEts = <<>>

StatesIdle ==
    /\ cIn = [ets |-> <<>>, pos_iau |-> <<0, 0, 0>>, delta_t |-> 1,
              source_frame |-> J2000, target_frame |-> J2000]
    /\ cOut = [status |-> "none"]

FramesIdle ==
    /\ fIn = [coords |-> <<0, 0, 0>>, source_frame |-> J2000,
              target_frame |-> J2000, et |-> 0]
    /\ fOut = [status |-> "none"]

NoCall ==
    [entry |-> "none", lat |-> 0, lon |-> 0, altitude |-> 0, times |-> <<>>,
     kernels_path |-> "kernels", custom_kernel_path |-> NoneArg,
     correct_zenith_azimuth |-> FALSE, source_frame |-> J2000, target_frame |-> J2000]

CoordsIdle ==
    /\ kIn = [kind |-> "none"]
    /\ kRect = [status |-> "none"] /\ kLlh = [status |-> "none"]
    /\ kColat = [status |-> "none"]

BatchIdle ==
    /\ pc = "idle" /\ call = NoCall /\ calls = 0 /\ faults = 0
    /\ basicKernels = BASIC_KERNELS /\ loaded = {} /\ file = NoFile
    /\ utc_times = <<>> /\ stage = "none" /\ kq = <<>> /\ fs = FsIdle
    /\ idx = 1 /\ moon_datas = <<>> /\ ret = NoRet /\ trace = {}

-----------------------------------------------------------------------------
(* The geometry specification: one epoch's service answers and the call's  *)
(* arguments are drawn in GeomInit; each function is applied to them.       *)

MaxRawLat == 180

MaxRawLon == 720

NoOut == [status |-> "none"]

AxisVectors ==
    {<<1, 0, 0>>, <<-1, 0, 0>>, <<0, 1, 0>>, <<0, -1, 0>>, <<0, 0, 1>>, <<0, 0, -1>>}

\* what the service answers for an ordinary epoch
BaseSvc ==
    [state_zenith |-> <<0, 0, 1>>, phase |-> 60, phase2 |-> 61,
     lon_obs |-> 10, lat_obs |-> 20, dist_obs_moon |-> 384400,
     dist_sun_moon_km |-> 149600000, dist_sun_moon_au |-> 1,
     lon_sun_rad |-> 30, lat_sun_rad |-> 1]

BaseCall ==
    [svc |-> BaseSvc, correct |-> FALSE, longitude |-> Omitted, colat |-> Omitted]

\* spice.phaseq answers an angle between 0 and pi
RawPhases == 0..180

RawLats == (-MaxRawLat)..MaxRawLat

\* the longitudes next to every multiple of 90 up to MaxRawLon
RawLons ==
    {x \in (-MaxRawLon)..MaxRawLon : \E k \in -10..10 : x \in Near(k * limit_lat)}

AngleArgs == {Omitted, NoneArg, Num(-180), Num(-90), Num(0), Num(90), Num(180)}

PhaseCalls ==
    {[BaseCall EXCEPT !.svc.phase = p, !.svc.phase2 = q] : p \in RawPhases, q \in RawPhases}

LonLatCalls ==
    {[BaseCall EXCEPT !.svc.lon_obs = lo, !.svc.lat_obs = la] :
        lo \in RawLons, la \in RawLats}

AngleCalls ==
    {[BaseCall EXCEPT !.svc.state_zenith = v, !.correct = c, !.longitude = lo, !.colat = co] :
        v \in AxisVectors, c \in BOOLEAN, lo \in AngleArgs, co \in AngleArgs}

GeomCalls == PhaseCalls \cup LonLatCalls \cup AngleCalls

GeomIdle == gIn = BaseCall /\ gOut = NoOut /\ xOut = NoOut /\ zOut = NoOut

GeomInit ==
    /\ gIn \in GeomCalls /\ gOut = NoOut /\ xOut = NoOut /\ zOut = NoOut
    /\ SeriesIdle /\ StatesIdle /\ FramesIdle /\ BatchIdle /\ CoordsIdle

GeomGetMoonData ==
    /\ gOut = NoOut
    /\ gOut' = get_moon_data(gIn.svc, gIn.correct, gIn.longitude, gIn.colat)
    /\ UNCHANGED <<gIn, xOut, zOut, seriesVars, statesVars, framesVars, batchVars, coordsVars>>

GeomGetZnAz ==
    /\ zOut = NoOut
    /\ zOut' = get_zn_az(gIn.svc.state_zenith, gIn.correct, gIn.longitude, gIn.colat)
    /\ UNCHANGED <<gIn, gOut, xOut, seriesVars, statesVars, framesVars, batchVars, coordsVars>>

GeomXyzsPhase ==
    /\ xOut = NoOut
    /\ xOut' = [status |-> "ok",
                mpa_deg |-> xyzs_signed_phase(gIn.svc.phase, gIn.svc.phase2)]
    /\ UNCHANGED <<gIn, gOut, zOut, seriesVars, statesVars, framesVars, batchVars, coordsVars>>

GeomNext == GeomGetMoonData \/ GeomGetZnAz \/ GeomXyzsPhase

SpecGeom == GeomInit /\ [][GeomNext]_vars

-----------------------------------------------------------------------------
(* Claims on the geometry *)

\* C3: the emitted phase is -p(e) when p(e + 1 s) < p(e) and +p(e) otherwise,
\* and lies in [-180, 180], in get_moon_data and in get_moon_datas_xyzs.
C3_PhaseSign ==
    LET p == gIn.svc.phase
        q == gIn.svc.phase2
        want == IF q < p THEN -p ELSE p
    IN  /\ gOut.status = "ok" => gOut.mpa_deg = want /\ gOut.mpa_deg \in -180..180
        /\ xOut.status = "ok" => xOut.mpa_deg = want /\ xOut.mpa_deg \in -180..180

C3_Witness ==
    /\ gOut.status = "ok" /\ xOut.status = "ok"
    /\ gIn.svc.phase2 < gIn.svc.phase
    /\ gOut.mpa_deg < 0 /\ xOut.mpa_deg < 0

\* C4: in get_moon_data the reflection followed by the repeated +-360 wrap ends
\* after a bounded number of steps with the longitude in [-180, 180]; a longitude
\* already in [-180, 180] with a latitude in [-90, 90] is emitted unchanged.
C4_LonWrapped ==
    gOut.status = "ok" =>
        LET lo == gIn.svc.lon_obs
            la == gIn.svc.lat_obs
            shifted == reflect_lat(la, lo)[2]
        IN  /\ gOut.lon_obs \in -180..180
            /\ wrap_lon(shifted).steps * 360 <= Abs(shifted) + 180
            /\ (lo \in -180..180 /\ la \in -90..90) => gOut.lon_obs = lo

C4_Witness ==
    /\ gOut.status = "ok"
    /\ gIn.svc.lat_obs > 90 /\ gIn.svc.lon_obs > 540
    /\ wrap_lon(reflect_lat(gIn.svc.lat_obs, gIn.svc.lon_obs)[2]).steps >= 1
    /\ gOut.lon_obs \in -180..180

\* C5: in get_moon_data, for a raw latitude in [-180, 180], the emitted observer
\* latitude lies in [-90, 90].
C5_LatInRange ==
    (gOut.status = "ok" /\ gIn.svc.lat_obs \in -180..180) => gOut.lat_obs \in -90..90

C5_Witness ==
    /\ gOut.status = "ok"
    /\ gIn.svc.lat_obs < -90
    /\ gOut.lat_obs \in -90..90

\* C9: whenever the rotation correction is requested and the longitude or the
\* colatitude is not supplied (omitted or None), every path that computes
\* zenith and azimuth, get_moon_data as well as get_zn_az, fails with an error
\* instead of producing a zenith and an azimuth.
C9_ConfigError ==
    (gIn.correct /\ (gIn.longitude.tag # "num" \/ gIn.colat.tag # "num")) =>
        /\ gOut.status \in {"none", "ValueError", "TypeError"}
        /\ zOut.status \in {"none", "ValueError", "TypeError"}

\* C22: for every non-zero vector, with (lon, lat) the latitudinal
\* decomposition of the vector, rotated when the correction is requested, the
\* zenith emitted is 90 - lat and the azimuth 180 - lon, the zenith in
\* [0, 180] and the azimuth in [0, 360); get_zn_az and get_moon_data emit the
\* same pair for the same vector, longitude and colatitude.
C22_ZenithAzimuth ==
    LET Decomposed(out) ==
            LET rotated == IF gIn.correct
                           THEN mtxv(eul2m(-(BindDefault(gIn.longitude, Num(0)).v + 180),
                                           -BindDefault(gIn.colat, Num(0)).v, 0, 3, 2, 3),
                                     gIn.svc.state_zenith)
                           ELSE gIn.svc.state_zenith
            IN  /\ out.zenith = 90 - reclat(rotated)[2]
                /\ out.azimuth = 180 - reclat(rotated)[1]
                /\ out.zenith \in 0..180
                /\ out.azimuth \in 0..359
    IN  /\ gOut.status = "ok" => Decomposed(gOut)
        /\ zOut.status = "ok" => Decomposed(zOut)
        /\ (gOut.status = "ok" /\ zOut.status = "ok") =>
                (gOut.zenith = zOut.zenith /\ gOut.azimuth = zOut.azimuth)

C22_Witness ==
    /\ gOut.status = "ok" /\ zOut.status = "ok"
    /\ gIn.correct /\ gIn.longitude = Num(90) /\ gIn.colat = Num(90)
    /\ gIn.svc.state_zenith = <<1, 0, 0>>
    /\ gOut.zenith = zOut.zenith /\ gOut.azimuth = zOut.azimuth
    /\ gOut.azimuth # 180

\* C23: in get_moon_data a raw observer latitude above +90 is reflected to
\* 180 - lat and one below -90 to -180 - lat, the longitude shifted by 180
\* before wrapping; a latitude within [-90, 90] is left as it is, and its
\* longitude is only wrapped.
C23_Reflection ==
    gOut.status = "ok" =>
        LET lat == gIn.svc.lat_obs
            lon == gIn.svc.lon_obs
        IN  /\ lat > 90 => /\ gOut.lat_obs = 180 - lat
                           /\ Mod360(gOut.lon_obs) = Mod360(lon - 180)
            /\ lat < -90 => /\ gOut.lat_obs = -180 - lat
                            /\ Mod360(gOut.lon_obs) = Mod360(lon + 180)
            /\ lat \in -90..90 => /\ gOut.lat_obs = lat
                                  /\ Mod360(gOut.lon_obs) = Mod360(lon)

C23_Witness ==
    /\ gOut.status = "ok"
    /\ gIn.svc.lat_obs = -100 /\ gIn.svc.lon_obs = 91
    /\ gOut.lat_obs = -80 /\ gOut.lon_obs = -89

\* C23 as stated: a raw latitude beyond +90 or beyond -90 is reflected by
\* lat' = 180 - lat and its longitude shifted by 180; a latitude within
\* [-90, 90] is left untouched.
C23_ReflectionAsStated ==
    gOut.status = "ok" =>
        LET lat == gIn.svc.lat_obs
            lon == gIn.svc.lon_obs
        IN  /\ (lat > 90 \/ lat < -90) => /\ gOut.lat_obs = 180 - lat
                                          /\ Mod360(gOut.lon_obs) = Mod360(lon + 180)
            /\ lat \in -90..90 => /\ gOut.lat_obs = lat
                                  /\ Mod360(gOut.lon_obs) = Mod360(lon)

-----------------------------------------------------------------------------
(* The series specification: the loop over utc_times of the kernel         *)
(* builders, one iteration per step.                                        *)

MaxTimes == 3

MaxEt == 5

\* requested instants (ticks): half a second, one, two, six and a half and
\* twenty seconds after the first
SeriesUtcs == {0, 1, 2, 4, 13, 40}

SeqsUpTo(S, n) == UNION {[1..k -> S] : k \in 0..n}

Range(f) == {f[i] : i \in DOMAIN f}

SeriesInit ==
    /\ sBuilder \in {"earth", "moon"}
    /\ sTimes \in {t \in SeqsUpTo({Str(u) : u \in SeriesUtcs}, MaxTimes) : Len(t) >= 1}
    /\ sIdx = 1
    /\ sEts = <<>>
    /\ gIn = BaseCall /\ gOut = NoOut /\ xOut = NoOut /\ zOut = NoOut
    /\ StatesIdle /\ FramesIdle /\ BatchIdle /\ CoordsIdle

SeriesAddWindow ==
    /\ sIdx <= Len(sTimes)
    /\ sEts' = add_window(sBuilder, sEts, sTimes[sIdx])
    /\ sIdx' = sIdx + 1
    /\ UNCHANGED <<sBuilder, sTimes, geomVars, statesVars, framesVars, batchVars, coordsVars>>

SeriesNext == SeriesAddWindow

SpecSeries == SeriesInit /\ [][SeriesNext]_vars

\* C6: the sample epochs are strictly increasing with no duplicate, are the
\* union of the windows of the epochs requested so far, and hold six samples
\* spaced delta_t (one second) apart around every requested epoch.
C6_SeriesSortedUnion ==
    LET S == Range(sEts)
        req == {str2et(sTimes[i].utc) : i \in 1..(sIdx - 1)}
    IN  /\ \A i, j \in 1..Len(sEts) : i < j => sEts[i] < sEts[j]
        /\ S = UNION {{e + Sec(k) : k \in -3..2} : e \in req}
        /\ \A e \in req : \E a \in S :
               /\ a <= e /\ e <= a + Sec(5)
               /\ \A k \in 0..5 : a + Sec(k) \in S

C6_Witness ==
    /\ sIdx > Len(sTimes) /\ Len(sTimes) = 3
    /\ sTimes[1].utc > sTimes[2].utc /\ sTimes[3] = sTimes[1]
    /\ Len(sEts) = 12

\* C18 (as the code has it): the window of a requested epoch e holds
\* polynomial_degree + 1 = 6 samples spaced delta_t apart, from e - 3 delta_t
\* to e + 2 delta_t: three samples before e, e itself, and two after e.
C18_Window ==
    sIdx = 2 =>
        LET e == str2et(sTimes[1].utc)
        IN  /\ Len(sEts) = polynomial_degree + 1
            /\ \A i \in 1..(Len(sEts) - 1) : sEts[i + 1] - sEts[i] = Sec(delta_t)
            /\ Cardinality({i \in 1..Len(sEts) : sEts[i] < e}) = 3
            /\ \E i \in 1..Len(sEts) : sEts[i] = e
            /\ Cardinality({i \in 1..Len(sEts) : sEts[i] > e}) = 2
            /\ sEts[1] = e - Sec(3 * delta_t)
            /\ sEts[Len(sEts)] = e + Sec(2 * delta_t)

C18_Witness ==
    /\ sIdx = 2
    /\ sBuilder = "moon"
    /\ sTimes[1] = Str(13)
    /\ sEts = [k \in 1..6 |-> str2et(13) + Sec(k - 4)]

\* C18 (as stated): six samples spaced delta_t apart, three of them before e
\* and the remaining three after e, the window symmetric around e.
C18_SymmetricWindow ==
    sIdx = 2 =>
        LET e == str2et(sTimes[1].utc)
        IN  /\ Len(sEts) = polynomial_degree + 1
            /\ \A i \in 1..(Len(sEts) - 1) : sEts[i + 1] - sEts[i] = Sec(delta_t)
            /\ Cardinality({i \in 1..Len(sEts) : sEts[i] < e}) = 3
            /\ Cardinality({i \in 1..Len(sEts) : sEts[i] > e}) = 3
            /\ \A i \in 1..Len(sEts) : \E j \in 1..Len(sEts) : sEts[i] - e = e - sEts[j]

\* C25: in the finished series every sample but the last is followed by the
\* next sample exactly delta_t later, the time over which _calculate_states
\* divides the change of position, also when the requested epochs are far
\* apart.
C25_UniformSpacing ==
    sIdx > Len(sTimes) =>
        \A i \in 1..(Len(sEts) - 1) : sEts[i + 1] - sEts[i] = Sec(delta_t)

-----------------------------------------------------------------------------
(* The states specification: _calculate_states on a drawn series *)

IncreasingSeqs(S, n) ==
    {q \in SeqsUpTo(S, n) : \A i, j \in 1..Len(q) : i < j => q[i] < q[j]}

SurfacePoints == {<<2, 0, 0>>, <<0, 4, 2>>, <<6, 2, -2>>}

StatesInit ==
    /\ cIn \in [ets : {q \in IncreasingSeqs(0..MaxEt, MaxTimes) : Len(q) >= 1},
                pos_iau : SurfacePoints,
                delta_t : {1, 2},
                source_frame : {ITRF93, MOON_ME},
                target_frame : {J2000, ITRF93, MOON_ME}]
    /\ cOut = [status |-> "none"]
    /\ gIn = BaseCall /\ gOut = NoOut /\ xOut = NoOut /\ zOut = NoOut
    /\ SeriesIdle /\ FramesIdle /\ BatchIdle /\ CoordsIdle

StatesCalculate ==
    /\ cOut.status = "none"
    /\ cOut' = _calculate_states(cIn.ets, cIn.pos_iau, cIn.delta_t,
                                 cIn.source_frame, cIn.target_frame)
    /\ UNCHANGED <<cIn, geomVars, seriesVars, framesVars, batchVars, coordsVars>>

StatesNext == StatesCalculate

SpecStates == StatesInit /\ [][StatesNext]_vars

\* C7: for n >= 1 epochs _calculate_states returns n states whose positions are
\* the rotated point, whose velocity at i < n-1 is (pos[i+1] - pos[i]) / delta_t
\* and at the last sample (pos_at(epoch[n-1] + delta_t) - pos[n-1]) / delta_t.
C7_Velocities ==
    (cOut.status # "none" /\ Len(cIn.ets) >= 1) =>
        LET n == Len(cIn.ets)
            at(et) == mxv(pxform(cIn.source_frame, cIn.target_frame, et), cIn.pos_iau)
            st == cOut.states
        IN  /\ cOut.status = "ok"
            /\ Len(st) = n
            /\ \A i \in 1..n : st[i].pos = at(cIn.ets[i])
            /\ \A i \in 1..(n - 1) : \A c \in 1..3 :
                   st[i].vel[c] * cIn.delta_t = st[i + 1].pos[c] - st[i].pos[c]
            /\ \A c \in 1..3 :
                   st[n].vel[c] * cIn.delta_t
                       = at(cIn.ets[n] + Sec(cIn.delta_t))[c] - st[n].pos[c]

C7_Witness ==
    /\ cOut.status = "ok" /\ Len(cIn.ets) = 3
    /\ cOut.states[3].vel # <<0, 0, 0>>
    /\ cOut.states[1].vel # <<0, 0, 0>>

-----------------------------------------------------------------------------
(* The frames specification: _change_frames on a drawn vector *)

FrameVectors == {<<1, 0, 0>>, <<0, 7, 0>>, <<60, 0, 20>>, <<-3, 5, 9>>}

FramesInit ==
    /\ fIn \in [coords : FrameVectors, source_frame : Frames,
                target_frame : Frames, et : 0..MaxEt]
    /\ fOut = [status |-> "none"]
    /\ gIn = BaseCall /\ gOut = NoOut /\ xOut = NoOut /\ zOut = NoOut
    /\ SeriesIdle /\ StatesIdle /\ BatchIdle /\ CoordsIdle

FramesChange ==
    /\ fOut.status = "none"
    /\ LET r == _change_frames(fIn.coords, fIn.source_frame, fIn.target_frame, fIn.et)
       IN  fOut' = [status |-> "ok", value |-> r.value, queries |-> r.queries]
    /\ UNCHANGED <<fIn, geomVars, seriesVars, statesVars, batchVars, coordsVars>>

FramesNext == FramesChange

SpecFrames == FramesInit /\ [][FramesNext]_vars

\* C8: _change_frames returns R.v without asking for the Moon's position when
\* the target frame is not Moon-body-fixed, and R.(v - moonPos) when it is, with
\* moonPos the Moon seen from the Earth in the source frame at the epoch.
C8_ChangeFrames ==
    fOut.status = "ok" =>
        LET R == pxform(fIn.source_frame, fIn.target_frame, fIn.et)
            moonPos == spkpos_moon(fIn.et, fIn.source_frame, "EARTH")
        IN  /\ FrameBody(fIn.target_frame) # "MOON" =>
                   /\ fOut.value = mxv(R, fIn.coords)
                   /\ \A i \in 1..Len(fOut.queries) : fOut.queries[i] # "spkpos"
            /\ FrameBody(fIn.target_frame) = "MOON" =>
                   fOut.value = mxv(R, VecSub(fIn.coords, moonPos))

C8_Witness ==
    /\ fOut.status = "ok"
    /\ FrameBody(fIn.target_frame) = "MOON" /\ FrameBody(fIn.source_frame) = "none"
    /\ fOut.value # mxv(pxform(fIn.source_frame, fIn.target_frame, fIn.et), fIn.coords)

\* C19: _change_frames subtracts the Moon's position only when the source
\* frame is not a Moon frame and the target frame is; between two Moon frames,
\* and towards any other frame, the vector is only rotated.
C19_RecenterOnlyFromEarth ==
    fOut.status = "ok" =>
        LET R == pxform(fIn.source_frame, fIn.target_frame, fIn.et)
            moonPos == spkpos_moon(fIn.et, fIn.source_frame, "EARTH")
            crossing == /\ FrameBody(fIn.source_frame) # "MOON"
                        /\ FrameBody(fIn.target_frame) = "MOON"
        IN  fOut.value = IF crossing THEN mxv(R, VecSub(fIn.coords, moonPos))
                         ELSE mxv(R, fIn.coords)

-----------------------------------------------------------------------------
(* The coordinates specification: the geodetic conversions of              *)
(* coordinates.py on the points of the quarter-turn grid, and the          *)
(* colatitude of the observer.                                              *)

\* spice.bodvrd(body, "RADII", 3): <<radii[0], radii[2]>>, km
bodvrd_radii(body) == IF body = "EARTH" THEN earth_radii ELSE moon_radii

\* spice.georec(lon, lat, alt, re, f), km, with pol_rad = re * (1 - f)
georec(lon, lat, alt_km, eq_rad, pol_rad) ==
    <<(eq_rad + alt_km) * CosDeg(lat) * CosDeg(lon),
      (eq_rad + alt_km) * CosDeg(lat) * SinDeg(lon),
      (pol_rad + alt_km) * SinDeg(lat)>>

\* spice.recgeo(rectan, re, f) of a point of an axis: <<lon, lat, alt>>, with
\* the longitude in (-180, 180] and 0 at the poles
recgeo(rectan, eq_rad, pol_rad) ==
    CASE rectan[1] = 0 /\ rectan[2] = 0 /\ rectan[3] # 0 ->
            <<0, IF rectan[3] > 0 THEN 90 ELSE -90, Abs(rectan[3]) - pol_rad>>
      [] rectan[3] = 0 /\ (rectan[1] = 0) # (rectan[2] = 0) ->
            <<Atan2Deg(rectan[2], rectan[1]), 0,
              Abs(rectan[1]) + Abs(rectan[2]) - eq_rad>>

\* coordinates.py:7-26; heights in metres, the result in metres
to_rectangular_same_frame(latlonheights, body) ==
    LET radios == bodvrd_radii(body)
        pos_iau(llh) == georec(llh[2], llh[1], ExactDiv(llh[3], 1000),
                               radios[1], radios[2])
    IN  [i \in 1..Len(latlonheights) |->
            [c \in 1..3 |-> pos_iau(latlonheights[i])[c] * 1000]]

RECURSIVE lon_into_range(_)
\* coordinates.py:46-49
lon_into_range(lon) ==
    IF lon < -180 THEN lon_into_range(lon + 360)
    ELSE IF lon > 180 THEN lon_into_range(lon - 360)
    ELSE lon

\* to_planetographic_same_frame giving back the tuples as spice.recgeo orders them
to_planetographic_same_frame_mut(xyz_list, body) ==
    LET radii == bodvrd_radii(body)
        llh(xyz) == recgeo([c \in 1..3 |-> ExactDiv(xyz[c], 1000)], radii[1], radii[2])
    IN  [i \in 1..Len(xyz_list) |->
            <<lon_into_range(llh(xyz_list[i])[1]), llh(xyz_list[i])[2],
              llh(xyz_list[i])[3] * 1000>>]

\* coordinates.py:29-52; the result is <<lat, lon, alt>>, alt in metres
to_planetographic_same_frame(xyz_list, body) ==
    LET radii == bodvrd_radii(body)
        llh(xyz) == recgeo([c \in 1..3 |-> ExactDiv(xyz[c], 1000)], radii[1], radii[2])
    IN  [i \in 1..Len(xyz_list) |->
            <<llh(xyz_list[i])[2], lon_into_range(llh(xyz_list[i])[1]),
              llh(xyz_list[i])[3] * 1000>>]

\* angular.py:47-48
get_colat_deg(lat) == 90 - (lat % 90)

\* geodetic points <<lat, lon, alt>> (degrees, degrees, metres) of the grid:
\* on the equator at the four quarter longitudes, and the two poles
GeoGrid ==
    {<<0, lo, h>> : lo \in {-90, 0, 90, 180}, h \in {0, 2000, 400000}}
        \cup {<<la, 0, h>> : la \in {-90, 90}, h \in {0, 2000, 400000}}

\* observer latitudes, degrees
ObsLats == -90..90

CoordsInputs ==
    {[kind |-> "llh", points |-> ps, body |-> b] :
        ps \in {<<p>> : p \in GeoGrid} \cup {<<p, q>> : p \in GeoGrid, q \in {<<0, 90, 2000>>}},
        b \in {"EARTH", "MOON"}}
        \cup {[kind |-> "lat", lat |-> la, lon |-> 0] : la \in ObsLats}
        \cup {[kind |-> "lat", lat |-> 0, lon |-> lo] : lo \in -180..180}

CoordsInit ==
    /\ kIn \in CoordsInputs
    /\ kRect = [status |-> "none"] /\ kLlh = [status |-> "none"]
    /\ kColat = [status |-> "none"]
    /\ GeomIdle /\ SeriesIdle /\ StatesIdle /\ FramesIdle /\ BatchIdle

CoordsToRectangular ==
    /\ kIn.kind = "llh" /\ kRect.status = "none"
    /\ kRect' = [status |-> "ok", value |-> to_rectangular_same_frame(kIn.points, kIn.body)]
    /\ UNCHANGED <<kIn, kLlh, kColat, geomVars, seriesVars, statesVars, framesVars, batchVars>>

CoordsToPlanetographic ==
    /\ kRect.status = "ok" /\ kLlh.status = "none"
    /\ kLlh' = [status |-> "ok", value |-> to_planetographic_same_frame(kRect.value, kIn.body)]
    /\ UNCHANGED <<kIn, kRect, kColat, geomVars, seriesVars, statesVars, framesVars, batchVars>>

\* core.py:201 and angular.py:47-48 on the same latitude; core.py:202 and
\* core.py:72 (angular.py:37 alike) on the longitude: lon_deg is longitude + 180
\* of get_moon_data, which is called with longitude % 180
CoordsColat ==
    /\ kIn.kind = "lat" /\ kColat.status = "none"
    /\ kColat' = [status |-> "ok", id |-> id_colat(kIn.lat), deg |-> get_colat_deg(kIn.lat),
                  lon_deg |-> id_lon(kIn.lon) + 180]
    /\ UNCHANGED <<kIn, kRect, kLlh, geomVars, seriesVars, statesVars, framesVars, batchVars>>

CoordsNext == CoordsToRectangular \/ CoordsToPlanetographic \/ CoordsColat

SpecCoords == CoordsInit /\ [][CoordsNext]_vars

C20_Colatitude ==
    kColat.status = "ok" =>
        /\ kColat.id = 90 - kIn.lat
        /\ kColat.deg = 90 - kIn.lat

\* C21: for every observer longitude in [-180, 180] the first Euler angle of
\* the rotation correction, computed from the caller's longitude by % 180 and
\* then + 180, is congruent to longitude + 180 modulo 360.
C21_FirstEulerAngle ==
    kColat.status = "ok" => Mod360(kColat.lon_deg) = Mod360(kIn.lon + 180)

-----------------------------------------------------------------------------
(* geoselenic._get_moon_datas_xyzs.  The observer is given by rectangular  *)
(* coordinates, km, and stands on an axis through the Moon's centre, or at *)
(* the centre itself.  A float that can become NaN is a record             *)
(* [nan, v]: the number v, or NaN.                                          *)

\* kilometres in one astronomical unit, to the kilometre (spice.convrt)
KmPerAU == 149597871

\* spice.spkpos(targ, et, frame, "NONE", obs), km: the Sun seen from the Moon,
\* the Moon seen from the Earth or from itself
spkpos_xyzs(targ, et, frame, obs) ==
    LET j2000 == CASE targ = "SUN" /\ obs = "MOON" -> <<0, KmPerAU, 0>>
                   [] targ = "MOON" /\ obs = "EARTH" -> <<384400, 0, 0>>
                   [] targ = "MOON" /\ obs = "MOON" -> <<0, 0, 0>>
    IN  mxv(ToFrame(frame, et), j2000)

\* spice.et2utc(et, "ISOC", 0): the UTC instant rounded to the second
et2utc(et) ==
    Str((((et - Sec(DeltaET)) + (TicksPerSecond \div 2)) \div TicksPerSecond)
            * TicksPerSecond)

\* coordinates.py:97-125; xyz_list in metres, the result <<lat, lon, alt>>
to_planetographic_multiple(xyz_list, body, dts, source_frame, target_frame) ==
    LET radii == bodvrd_radii(body)
        n == IF Len(xyz_list) < Len(dts) THEN Len(xyz_list) ELSE Len(dts)
        pos_iau(i) == [c \in 1..3 |-> ExactDiv(xyz_list[i][c], 1000)]
        pos_iau_proc(i) == _change_frames(pos_iau(i), source_frame, target_frame,
                                          str2et(dts[i].utc)).value
        tuple(llh) == <<llh[2], lon_into_range(llh[1]), llh[3] * 1000>>
    IN  [i \in 1..n |-> tuple(recgeo(pos_iau_proc(i), radii[1], radii[2]))]

\* geoselenic.py:87-187.  At the Moon's centre the intercept factor k is
\* infinite and spoint is NaN; spice.recpgr then raises or answers NaN
\* (nan_point).
_get_moon_datas_xyzs(xyz, et, source_frame, target_frame, angular_frame, intercept_ellipsoid, nan_point) ==
    LET F(v) == [nan |-> FALSE, v |-> v]
        NaN == [nan |-> TRUE, v |-> 0]
        Sgn(x) == IF x > 0 THEN 1 ELSE IF x < 0 THEN -1 ELSE 0
        \* np.sqrt(x*x + y*y + z*z) of a vector of an axis, or of the zero vector
        norm(v) == CASE Cardinality({i \in 1..3 : v[i] # 0}) <= 1 ->
                            Abs(v[1]) + Abs(v[2]) + Abs(v[3])
        \* np.arccos, degrees
        arccos(c) == CASE c = 1 -> 0 [] c = 0 -> 90 [] c = -1 -> 180
        obs_body == IF Contains(MOON, source_frame) /\ Contains(MOON, target_frame)
                    THEN "MOON" ELSE "EARTH"
        \* lines 110-187, from the vectors of lines 95-107 and 155-163
        moon_data(sun_pos_moonref, sat_pos_moonref, sat_pos_angref, plt) ==
            LET sun_ll == reclat(sun_pos_moonref)
                distance_sun_moon == norm(sun_pos_moonref)
                distance_sat_moon == norm(sat_pos_moonref)
                \* lines 125-135: k * (x, y, z) is the point of the ellipsoid
                \* below the observer; spice.recpgr gives the longitude positive
                \* east, in [0, 360)
                spoint == <<Sgn(sat_pos_moonref[1]) * moon_radii[1],
                            Sgn(sat_pos_moonref[2]) * moon_radii[1],
                            Sgn(sat_pos_moonref[3]) * moon_radii[2]>>
                sel == IF intercept_ellipsoid
                       THEN IF distance_sat_moon = 0
                            THEN IF nan_point = "raise"
                                 THEN [status |-> "SpiceError"]
                                 ELSE [status |-> "ok", lon |-> NaN, lat |-> NaN]
                            ELSE [status |-> "ok",
                                  lon |-> F(Mod360(Atan2Deg(spoint[2], spoint[1]))),
                                  lat |-> F(reclat(spoint)[2])]
                       \* lines 136-148: np.arctan2, which is 0 at (0, 0)
                       ELSE [status |-> "ok", lon |-> F(reclat(sat_pos_moonref)[1]),
                             lat |-> F(reclat(sat_pos_moonref)[2])]
                colat == get_colat_deg(plt[1][1])
                lon == plt[1][2] % 180
                za == get_zn_az(VecNeg(sat_pos_angref), TRUE, Num(lon), Num(colat))
                \* lines 168-175: the arccos of 0 / 0 is NaN
                phase == IF distance_sat_moon = 0 \/ distance_sun_moon = 0
                         THEN NaN
                         ELSE F(arccos(
                                Sgn(sun_pos_moonref[1]) * Sgn(sat_pos_moonref[1])
                                + Sgn(sun_pos_moonref[2]) * Sgn(sat_pos_moonref[2])
                                + Sgn(sun_pos_moonref[3]) * Sgn(sat_pos_moonref[3])))
            IN  IF sel.status # "ok"
                THEN [status |-> sel.status]
                ELSE [status |-> "ok",
                      dist_sun_moon_au |-> ExactDiv(distance_sun_moon, KmPerAU),
                      dist_sun_moon_km |-> distance_sun_moon,
                      dist_obs_moon |-> distance_sat_moon,
                      lon_sun_rad |-> sun_ll[1],
                      lat_sun_rad |-> sun_ll[2],
                      lat_obs |-> sel.lat,
                      lon_obs |-> sel.lon,
                      mpa_deg |-> phase,
                      azimuth |-> za.azimuth,
                      zenith |-> za.zenith]
        \* lines 101-107 and 155-156, from sat_pos_translate
        rotated(sun_pos_moonref, sat_pos_translate, plt) ==
            moon_data(sun_pos_moonref,
                      mxv(pxform(source_frame, target_frame, et), sat_pos_translate),
                      mxv(pxform(source_frame, angular_frame, et), sat_pos_translate),
                      plt)
    IN  rotated(spkpos_xyzs("SUN", et, target_frame, "MOON"),
                VecSub(xyz, spkpos_xyzs("MOON", et, source_frame, obs_body)),
                to_planetographic_multiple(<<[c \in 1..3 |-> xyz[c] * 1000]>>, obs_body,
                                           <<et2utc(et)>>, source_frame, angular_frame))

\* geoselenic.py:232-243: one turn of the loop of get_moon_datas_xyzs; a
\* comparison with NaN is False
xyzs_moon_data(xyz, dt, source_frame, target_frame, angular_frame, intercept_ellipsoid, nan_point) ==
    LET flip(md, md2) ==
            IF md.status # "ok" THEN md
            ELSE IF md2.status # "ok" THEN md2
            ELSE IF md.mpa_deg.nan \/ md2.mpa_deg.nan THEN md
            ELSE [md EXCEPT !.mpa_deg.v = xyzs_signed_phase(md.mpa_deg.v,
                                                            md2.mpa_deg.v)]
    IN  flip(_get_moon_datas_xyzs(xyz, str2et(dt.utc), source_frame, target_frame,
                                  angular_frame, intercept_ellipsoid, nan_point),
             _get_moon_datas_xyzs(xyz, str2et(dt.utc) + Sec(1), source_frame,
                                  target_frame, angular_frame, intercept_ellipsoid,
                                  nan_point))

-----------------------------------------------------------------------------
(* The batch specification: calls of get_moon_datas and                    *)
(* get_moon_datas_from_moon in one process, one after the other.  A load    *)
(* or a query of the service may fail while `faults` lasts.                 *)

MaxCalls == 1

MaxBatch == 2

MaxFaults == 2

\* a timezone-aware datetime, two seconds east of UTC, half a second past the second
Dt == [kind |-> "dt", local |-> 45, tz |-> 4]

TimeInputs == {Str(13), Dt}

BatchTimes == SeqsUpTo(TimeInputs, MaxBatch)

\* the frames a call passes as source_frame and target_frame
EntryFrames(entry) ==
    IF entry = "get_moon_datas"
    THEN {<<ITRF93, ITRF93>>, <<ITRF93, MOON_ME>>}
    ELSE {<<MOON_ME, MOON_ME>>}

otherVars == <<geomVars, seriesVars, statesVars, framesVars, coordsVars>>

\* geotic.py:218-219, selenic.py:231-232
CustomDir ==
    IF call.custom_kernel_path.tag = "None"
    THEN call.kernels_path
    ELSE call.custom_kernel_path.v

CustomPath == PathJoin(CustomDir, CUSTOM_KERNEL_NAME)

\* furnsh can read the file: the kernels of kernels_path are there, the custom
\* kernel only once it is written
CanLoad(path) == path[2] = CUSTOM_KERNEL_NAME => file.exists

\* the custom kernel file an earlier run of the program has left in kernels_path
LeftoverFile ==
    LET ets == build_ets("earth", <<>>, <<Str(0)>>, 1)
    IN  [exists |-> TRUE,
         seg |-> Segment(399100, EARTH_ID_CODE, ITRF93, ets,
                         Location("EARTH", 0, 0, 0, earth_radii, ets, delta_t,
                                  ITRF93, ITRF93).states)]

BatchInit ==
    /\ pc = "idle" /\ call = NoCall /\ calls = 0 /\ faults = MaxFaults
    /\ basicKernels = BASIC_KERNELS /\ loaded = {} /\ file \in {NoFile, LeftoverFile}
    /\ utc_times = <<>> /\ stage = "none" /\ kq = <<>> /\ fs = FsIdle
    /\ idx = 1 /\ moon_datas = <<>> /\ ret = NoRet /\ trace = {}
    /\ gIn = BaseCall /\ gOut = NoOut /\ xOut = NoOut /\ zOut = NoOut
    /\ SeriesIdle /\ StatesIdle /\ FramesIdle /\ CoordsIdle

\* a caller calls get_moon_datas or get_moon_datas_from_moon
Call ==
    /\ pc \in {"idle", "returned", "raised"}
    /\ calls < MaxCalls
    /\ \E entry \in {"get_moon_datas", "get_moon_datas_from_moon"},
          times \in BatchTimes, cza \in BOOLEAN :
         \E fr \in EntryFrames(entry) :
            call' = [entry |-> entry, lat |-> 0, lon |-> -90, altitude |-> 2000,
                     times |-> times, kernels_path |-> "kernels",
                     custom_kernel_path |-> NoneArg,
                     correct_zenith_azimuth |-> cza,
                     source_frame |-> fr[1], target_frame |-> fr[2]]
    /\ calls' = calls + 1
    /\ pc' = "entry"
    /\ utc_times' = <<>> /\ stage' = "none" /\ kq' = <<>> /\ fs' = FsIdle
    /\ idx' = 1 /\ moon_datas' = <<>> /\ ret' = NoRet /\ trace' = {}
    /\ UNCHANGED <<faults, basicKernels, loaded, file, otherVars>>

\* Enter with remove_custom_kernel_file ahead of the test for no epochs
Enter_mut ==
    /\ pc = "entry"
    /\ utc_times' = dt_to_str(call.times)
    /\ file' = NoFile
    /\ trace' = IF file.exists THEN trace \cup {"remove"} ELSE trace
    /\ IF Len(dt_to_str(call.times)) = 0
       THEN pc' = "returned" /\ ret' = Ok(<<>>)
       ELSE pc' = "builder" /\ UNCHANGED ret
    /\ UNCHANGED <<call, calls, faults, basicKernels, loaded, stage, kq, fs, idx,
                   moon_datas, otherVars>>

\* geotic.py:218-224, selenic.py:231-237: dt_to_str, the empty fast path,
\* remove_custom_kernel_file
Enter ==
    /\ pc = "entry"
    /\ utc_times' = dt_to_str(call.times)
    /\ IF Len(dt_to_str(call.times)) = 0
       THEN /\ pc' = "returned"
            /\ ret' = Ok(<<>>)
            /\ UNCHANGED <<file, trace>>
       ELSE /\ pc' = "builder"
            /\ file' = NoFile
            /\ trace' = IF file.exists THEN trace \cup {"remove"} ELSE trace
            /\ UNCHANGED ret
    /\ UNCHANGED <<call, calls, faults, basicKernels, loaded, stage, kq, fs, idx,
                   moon_datas, otherVars>>

\* geotic.py:110-112 (kernels is the list BASIC_KERNELS itself, and += extends
\* it in place), selenic.py:121 (a new list)
BuilderStart ==
    /\ pc = "builder"
    /\ LET extend == \/ Contains(MOON, call.source_frame)
                     \/ Contains(MOON, call.target_frame)
           kernels == IF call.entry = "get_moon_datas"
                      THEN IF extend THEN basicKernels \o MOON_KERNELS ELSE basicKernels
                      ELSE basicKernels \o MOON_KERNELS
       IN  /\ kq' = PathsOf(call.kernels_path, kernels)
           /\ basicKernels' = IF call.entry = "get_moon_datas" THEN kernels
                              ELSE basicKernels
    /\ stage' = "builder" /\ pc' = "furnsh" /\ fs' = FsIdle
    /\ UNCHANGED <<call, calls, faults, loaded, file, utc_times, idx, moon_datas,
                   ret, trace, otherVars>>

\* basics.py:24-25: the first spice.furnsh of furnsh_safer succeeds
FurnshTry1Ok ==
    /\ pc = "furnsh" /\ kq # <<>> /\ fs.pos \in {"idle", "returned"}
    /\ CanLoad(Head(kq))
    /\ loaded' = loaded \cup {Head(kq)}
    /\ fs' = [pos |-> "returned", log |-> <<"ok">>, path |-> Head(kq)]
    /\ kq' = Tail(kq)
    /\ trace' = trace \cup {"furnsh"}
    /\ UNCHANGED <<pc, call, calls, faults, basicKernels, file, utc_times, stage, idx,
                   moon_datas, ret, otherVars>>

\* furnsh_safer without the except clause: the first failure is raised
FurnshTry1Fail_mut ==
    /\ pc = "furnsh" /\ kq # <<>> /\ fs.pos \in {"idle", "returned"}
    /\ faults > 0 \/ ~CanLoad(Head(kq))
    /\ faults' = IF CanLoad(Head(kq)) THEN faults - 1 ELSE faults
    /\ fs' = [pos |-> "raised", log |-> <<"fail">>, path |-> Head(kq)]
    /\ pc' = "raised"
    /\ ret' = Raised("SpiceError")
    /\ trace' = trace \cup {"furnsh"}
    /\ UNCHANGED <<call, calls, basicKernels, loaded, file, utc_times, stage, kq, idx,
                   moon_datas, otherVars>>

\* basics.py:24-26: the first spice.furnsh raises, and the except clause is entered
FurnshTry1Fail ==
    /\ pc = "furnsh" /\ kq # <<>> /\ fs.pos \in {"idle", "returned"}
    /\ faults > 0 \/ ~CanLoad(Head(kq))
    /\ faults' = IF CanLoad(Head(kq)) THEN faults - 1 ELSE faults
    /\ fs' = [pos |-> "sleep", log |-> <<"fail">>, path |-> Head(kq)]
    /\ trace' = trace \cup {"furnsh"}
    /\ UNCHANGED <<pc, call, calls, basicKernels, loaded, file, utc_times, stage, kq,
                   idx, moon_datas, ret, otherVars>>

\* basics.py:27: time.sleep(2)
FurnshSleep ==
    /\ pc = "furnsh" /\ fs.pos = "sleep"
    /\ fs' = [pos |-> "try2", log |-> Append(fs.log, "sleep"), path |-> fs.path]
    /\ trace' = trace \cup {"sleep"}
    /\ UNCHANGED <<pc, call, calls, faults, basicKernels, loaded, file, utc_times,
                   stage, kq, idx, moon_datas, ret, otherVars>>

\* basics.py:28: the second spice.furnsh succeeds
FurnshTry2Ok ==
    /\ pc = "furnsh" /\ fs.pos = "try2"
    /\ CanLoad(Head(kq))
    /\ loaded' = loaded \cup {Head(kq)}
    /\ fs' = [pos |-> "returned", log |-> Append(fs.log, "ok"), path |-> fs.path]
    /\ kq' = Tail(kq)
    /\ trace' = trace \cup {"furnsh"}
    /\ UNCHANGED <<pc, call, calls, faults, basicKernels, file, utc_times, stage, idx,
                   moon_datas, ret, otherVars>>

\* basics.py:28: the second spice.furnsh raises, out of furnsh_safer and out of
\* the call
FurnshTry2Fail ==
    /\ pc = "furnsh" /\ fs.pos = "try2"
    /\ faults > 0 \/ ~CanLoad(Head(kq))
    /\ faults' = IF CanLoad(Head(kq)) THEN faults - 1 ELSE faults
    /\ fs' = [pos |-> "raised", log |-> Append(fs.log, "fail"), path |-> fs.path]
    /\ pc' = "raised"
    /\ ret' = Raised("SpiceError")
    /\ trace' = trace \cup {"furnsh"}
    /\ UNCHANGED <<call, calls, basicKernels, loaded, file, utc_times, stage, kq, idx,
                   moon_datas, otherVars>>

\* the series and the states of the observer point of the running call
BuilderKind == IF call.entry = "get_moon_datas" THEN "earth" ELSE "moon"

BuilderEts == build_ets(BuilderKind, <<>>, utc_times, 1)

BuilderStates ==
    IF call.entry = "get_moon_datas"
    THEN Location("EARTH", call.lat, call.lon, call.altitude, earth_radii,
                  BuilderEts, delta_t, call.source_frame, call.target_frame)
    ELSE Location("MOON", call.lat, call.lon, call.altitude, moon_radii,
                  BuilderEts, delta_t, call.source_frame, call.target_frame)

\* geotic.py:117-157, selenic.py:126-174: the sample epochs, the states, the
\* custom kernel file written and closed, and spice.kclear()
BuilderWrite ==
    /\ pc = "furnsh" /\ stage = "builder" /\ kq = <<>> /\ fs.pos \in {"idle", "returned"}
    /\ file' = [exists |-> TRUE,
                seg |-> Segment(IF call.entry = "get_moon_datas" THEN 399100 ELSE 301100,
                                IF call.entry = "get_moon_datas" THEN EARTH_ID_CODE
                                ELSE MOON_ID_CODE,
                                call.target_frame, BuilderEts, BuilderStates.states)]
    /\ loaded' = {}
    /\ trace' = trace \cup {"str2et", "pxform", "spkopn", "spkw09", "spkcls", "kclear"}
    /\ pc' = "id"
    /\ fs' = FsIdle
    /\ UNCHANGED <<call, calls, faults, basicKernels, utc_times, stage, kq, idx,
                   moon_datas, ret, otherVars>>

\* geotic.py:126, basics.py:130: a query of the builder (spice.str2et,
\* spice.pxform) raises; nothing is written and kclear is not reached
BuilderFail ==
    /\ pc = "furnsh" /\ stage = "builder" /\ kq = <<>> /\ fs.pos \in {"idle", "returned"}
    /\ faults > 0
    /\ faults' = faults - 1
    /\ pc' = "raised"
    /\ ret' = Raised("SpiceError")
    /\ trace' = trace \cup {"str2et"}
    /\ fs' = FsIdle
    /\ UNCHANGED <<call, calls, basicKernels, loaded, file, utc_times, stage, kq, idx,
                   moon_datas, otherVars>>

\* core.py:186-192: the kernels get_moon_datas_id loads
IdStart ==
    /\ pc = "id"
    /\ kq' = PathsOf(call.kernels_path, basicKernels \o MOON_KERNELS) \o <<CustomPath>>
    /\ stage' = "id" /\ pc' = "furnsh" /\ fs' = FsIdle
    /\ UNCHANGED <<call, calls, faults, basicKernels, loaded, file, utc_times, idx,
                   moon_datas, ret, trace, otherVars>>

\* core.py:194-202: spice.boddef and the start of the loop
IdBegin ==
    /\ pc = "furnsh" /\ stage = "id" /\ kq = <<>> /\ fs.pos \in {"idle", "returned"}
    /\ pc' = "id_loop"
    /\ moon_datas' = <<>>
    /\ idx' = 1
    /\ trace' = trace \cup {"boddef"}
    /\ fs' = FsIdle
    /\ UNCHANGED <<call, calls, faults, basicKernels, loaded, file, utc_times, stage,
                   kq, ret, otherVars>>

\* core.py:204-213: get_moon_data for utc_time, as get_moon_datas_id calls it
id_get_moon_data(utc_time) ==
    LET et == str2et(utc_time.utc)
    IN  IF /\ Covered(loaded, file, CustomDir, et)
           /\ Covered(loaded, file, CustomDir, et + Sec(1))
        THEN get_moon_data(SvcAt(et), call.correct_zenith_azimuth,
                           Num(id_lon(call.lon)), Num(id_colat(call.lat)))
        ELSE [status |-> "SpiceError"]

\* the loop of get_moon_datas_id with the new result put first
IdStep_mut ==
    /\ pc = "id_loop" /\ idx <= Len(utc_times)
    /\ LET new_md == id_get_moon_data(utc_times[idx])
       IN  IF new_md.status = "ok"
           THEN /\ moon_datas' = <<new_md>> \o moon_datas
                /\ idx' = idx + 1
                /\ UNCHANGED <<pc, ret>>
           ELSE /\ pc' = "raised"
                /\ ret' = Raised(new_md.status)
                /\ UNCHANGED <<moon_datas, idx>>
    /\ trace' = trace \cup {"query"}
    /\ UNCHANGED <<call, calls, faults, basicKernels, loaded, file, utc_times, stage,
                   kq, fs, otherVars>>

\* core.py:203-214: one iteration of the loop of get_moon_datas_id
IdStep ==
    /\ pc = "id_loop" /\ idx <= Len(utc_times)
    /\ LET new_md == id_get_moon_data(utc_times[idx])
       IN  IF new_md.status = "ok"
           THEN /\ moon_datas' = Append(moon_datas, new_md)
                /\ idx' = idx + 1
                /\ UNCHANGED <<pc, ret>>
           ELSE /\ pc' = "raised"
                /\ ret' = Raised(new_md.status)
                /\ UNCHANGED <<moon_datas, idx>>
    /\ trace' = trace \cup {"query"}
    /\ UNCHANGED <<call, calls, faults, basicKernels, loaded, file, utc_times, stage,
                   kq, fs, otherVars>>

\* the loop of get_moon_datas_id catching the failure of an epoch and
\* returning what it has so far
IdStepFail_mut ==
    /\ pc = "id_loop" /\ idx <= Len(utc_times)
    /\ faults > 0
    /\ faults' = faults - 1
    /\ pc' = "returned"
    /\ ret' = Ok(moon_datas)
    /\ trace' = trace \cup {"query"}
    /\ UNCHANGED <<call, calls, basicKernels, loaded, file, utc_times, stage, kq, fs,
                   idx, moon_datas, otherVars>>

\* core.py:204: a query of get_moon_data raises
IdStepFail ==
    /\ pc = "id_loop" /\ idx <= Len(utc_times)
    /\ faults > 0
    /\ faults' = faults - 1
    /\ pc' = "raised"
    /\ ret' = Raised("SpiceError")
    /\ trace' = trace \cup {"query"}
    /\ UNCHANGED <<call, calls, basicKernels, loaded, file, utc_times, stage, kq, fs,
                   idx, moon_datas, otherVars>>

\* the return of get_moon_datas_id without spice.kclear()
IdFinish_mut ==
    /\ pc = "id_loop" /\ idx > Len(utc_times)
    /\ ret' = Ok(moon_datas)
    /\ pc' = "returned"
    /\ UNCHANGED <<call, calls, faults, basicKernels, loaded, file, utc_times, stage,
                   kq, fs, idx, moon_datas, trace, otherVars>>

\* core.py:216-218: spice.kclear() and the return
IdFinish ==
    /\ pc = "id_loop" /\ idx > Len(utc_times)
    /\ loaded' = {}
    /\ ret' = Ok(moon_datas)
    /\ pc' = "returned"
    /\ trace' = trace \cup {"kclear"}
    /\ UNCHANGED <<call, calls, faults, basicKernels, file, utc_times, stage, kq, fs,
                   idx, moon_datas, otherVars>>

Next ==
    \/ Call \/ Enter \/ BuilderStart
    \/ FurnshTry1Ok \/ FurnshTry1Fail \/ FurnshSleep \/ FurnshTry2Ok \/ FurnshTry2Fail
    \/ BuilderWrite \/ BuilderFail
    \/ IdStart \/ IdBegin \/ IdStep \/ IdStepFail \/ IdFinish

Spec == BatchInit /\ [][Next]_vars

-----------------------------------------------------------------------------
(* The xyzs specification: calls of get_moon_datas_xyzs, directly and      *)
(* through get_moon_datas_xyzs_no_zenith_azimuth, in one process.  The     *)
(* lists xyzs and dts are drawn independently of each other.                *)

\* the calls.  The observer positions, km, are of the source frame: 2000 km
\* from the Moon's centre on an axis, and the centre itself; the times are
\* whole seconds.  get_moon_datas_xyzs is entered with its own defaults
\* (geoselenic.py:190-198) or with what the wrapper passes (spicedmoon.py:32-34).
XyzsCalls ==
    LET worlds ==
            {[source_frame |-> J2000, target_frame |-> MOON_ME,
              points |-> {<<386400, 0, 0>>, <<382400, 0, 0>>, <<384400, 0, 0>>}],
             [source_frame |-> MOON_ME, target_frame |-> IAU_MOON,
              points |-> {<<0, -2000, 0>>, <<0, 0, 2000>>}]}
        modes(entry) ==
            IF entry = "get_moon_datas_xyzs"
            THEN {[intercept_ellipsoid |-> TRUE, nan_point |-> "raise"],
                  [intercept_ellipsoid |-> TRUE, nan_point |-> "nan"],
                  [intercept_ellipsoid |-> FALSE, nan_point |-> "nan"]}
            ELSE {[intercept_ellipsoid |-> FALSE, nan_point |-> "nan"]}
    IN  UNION UNION {{{[entry |-> entry, xyzs |-> xyzs, dts |-> dts,
                        kernels_path |-> "kernels",
                        source_frame |-> w.source_frame,
                        target_frame |-> w.target_frame,
                        angular_frame |-> ITRF93,
                        intercept_ellipsoid |-> m.intercept_ellipsoid,
                        nan_point |-> m.nan_point] :
                            xyzs \in SeqsUpTo(w.points, MaxBatch),
                            dts \in SeqsUpTo({Str(Sec(7)), Str(Sec(8))}, MaxBatch),
                            m \in modes(entry)} :
                        w \in worlds} :
                    entry \in {"get_moon_datas_xyzs",
                               "get_moon_datas_xyzs_no_zenith_azimuth"}}

XyzsInit ==
    /\ pc = "idle" /\ call = NoCall /\ calls = 0 /\ faults = MaxFaults
    /\ basicKernels = BASIC_KERNELS /\ loaded = {} /\ file = NoFile
    /\ utc_times = <<>> /\ stage = "none" /\ kq = <<>> /\ fs = FsIdle
    /\ idx = 1 /\ moon_datas = <<>> /\ ret = NoRet /\ trace = {}
    /\ gIn = BaseCall /\ gOut = NoOut /\ xOut = NoOut /\ zOut = NoOut
    /\ SeriesIdle /\ StatesIdle /\ FramesIdle /\ CoordsIdle

\* a caller calls get_moon_datas_xyzs or get_moon_datas_xyzs_no_zenith_azimuth
XyzsCall ==
    /\ pc \in {"idle", "returned", "raised"}
    /\ calls < MaxCalls
    /\ call' \in XyzsCalls
    /\ calls' = calls + 1
    /\ pc' = "entry"
    /\ utc_times' = <<>> /\ stage' = "none" /\ kq' = <<>> /\ fs' = FsIdle
    /\ idx' = 1 /\ moon_datas' = <<>> /\ ret' = NoRet /\ trace' = {}
    /\ UNCHANGED <<faults, basicKernels, loaded, file, otherVars>>

\* geoselenic.py:227-230: the kernels get_moon_datas_xyzs loads
XyzsStart ==
    /\ pc = "entry"
    /\ kq' = PathsOf(call.kernels_path, basicKernels \o MOON_KERNELS)
    /\ stage' = "xyzs" /\ pc' = "furnsh" /\ fs' = FsIdle
    /\ UNCHANGED <<call, calls, faults, basicKernels, loaded, file, utc_times, idx,
                   moon_datas, ret, trace, otherVars>>

\* geoselenic.py:231-232: mds = [] and the start of the loop
XyzsBegin ==
    /\ pc = "furnsh" /\ stage = "xyzs" /\ kq = <<>> /\ fs.pos \in {"idle", "returned"}
    /\ pc' = "xyzs_loop"
    /\ moon_datas' = <<>>
    /\ idx' = 1
    /\ fs' = FsIdle
    /\ UNCHANGED <<call, calls, faults, basicKernels, loaded, file, utc_times, stage,
                   kq, ret, trace, otherVars>>

\* geoselenic.py:232-243: one turn of the loop; zip(xyzs, dts) goes on while
\* both lists have an item
XyzsStep ==
    /\ pc = "xyzs_loop" /\ idx <= Len(call.xyzs) /\ idx <= Len(call.dts)
    /\ \E md \in {xyzs_moon_data(call.xyzs[idx], call.dts[idx], call.source_frame,
                                  call.target_frame, call.angular_frame,
                                  call.intercept_ellipsoid, call.nan_point)} :
           IF md.status = "ok"
           THEN /\ moon_datas' = Append(moon_datas, md)
                /\ idx' = idx + 1
                /\ UNCHANGED <<pc, ret>>
           ELSE /\ pc' = "raised"
                /\ ret' = Raised(md.status)
                /\ UNCHANGED <<moon_datas, idx>>
    /\ trace' = trace \cup {"query"}
    /\ UNCHANGED <<call, calls, faults, basicKernels, loaded, file, utc_times, stage,
                   kq, fs, otherVars>>

\* geoselenic.py:244-245: spice.kclear() and the return of mds when zip is
\* exhausted; spicedmoon.py:32-34: the wrapper has no return statement, and
\* its caller gets None
XyzsFinish ==
    /\ pc = "xyzs_loop" /\ (idx > Len(call.xyzs) \/ idx > Len(call.dts))
    /\ loaded' = {}
    /\ ret' = IF call.entry = "get_moon_datas_xyzs"
              THEN Ok(moon_datas)
              ELSE [status |-> "None"]
    /\ pc' = "returned"
    /\ trace' = trace \cup {"kclear"}
    /\ UNCHANGED <<call, calls, faults, basicKernels, file, utc_times, stage, kq, fs,
                   idx, moon_datas, otherVars>>

XyzsNext ==
    \/ XyzsCall \/ XyzsStart
    \/ FurnshTry1Ok \/ FurnshTry1Fail \/ FurnshSleep \/ FurnshTry2Ok \/ FurnshTry2Fail
    \/ XyzsBegin \/ XyzsStep \/ XyzsFinish

SpecXyzs == XyzsInit /\ [][XyzsNext]_vars

\* C1: a call of get_moon_datas or get_moon_datas_from_moon with a non-empty
\* list of times that returns, returns one result per input time, the i-th
\* one computed by get_moon_data from the i-th input time, in input order
\* (so equal input times give equal results).
C1_OnePerTime ==
    (pc = "returned" /\ Len(call.times) > 0) =>
        /\ ret.status = "ok"
        /\ Len(ret.value) = Len(call.times)
        /\ \A i \in 1..Len(call.times) :
              ret.value[i] =
                  get_moon_data(SvcAt(str2et(dt_to_str_one(call.times[i]).utc)),
                                call.correct_zenith_azimuth,
                                Num(id_lon(call.lon)), Num(id_colat(call.lat)))

C1_Witness ==
    /\ pc = "returned"
    /\ call.times = <<Dt, Str(13)>>
    /\ Len(ret.value) = 2
    /\ ret.value[1] # ret.value[2]

\* C2: a call with zero epochs returns an empty list in its first step, with
\* no kernel loaded into the service, the custom kernel file neither removed
\* nor written, and no operation made on the service or on the files.
C2_EmptyFastPath ==
    [][(pc = "entry" /\ Len(call.times) = 0) =>
          /\ pc' = "returned"
          /\ ret' = Ok(<<>>)
          /\ loaded' = loaded
          /\ file' = file
          /\ trace' = {}]_vars

C2_Witness ==
    /\ pc = "returned"
    /\ call.times = <<>>
    /\ ret = Ok(<<>>)
    /\ file = LeftoverFile
    /\ loaded = {}
    /\ trace = {}

\* C10: furnsh_safer attempts a load at most twice; the second attempt comes
\* only after a failed first one and the sleep; a load whose first or second
\* attempt succeeds returns with the kernel loaded and no error; a failed
\* second attempt is raised to the caller, with no third attempt.
C10_FurnshSafer ==
    /\ <<fs.pos, fs.log>> \in
          { <<"idle", <<>>>>,
            <<"returned", <<"ok">>>>,
            <<"sleep", <<"fail">>>>,
            <<"try2", <<"fail", "sleep">>>>,
            <<"returned", <<"fail", "sleep", "ok">>>>,
            <<"raised", <<"fail", "sleep", "fail">>>> }
    /\ fs.pos \in {"sleep", "try2"} => (pc = "furnsh" /\ ret = NoRet)
    /\ fs.pos = "returned" => (pc = "furnsh" /\ ret = NoRet /\ fs.path \in loaded)
    /\ fs.pos = "raised" => (pc = "raised" /\ ret = Raised("SpiceError"))

C10_Witness ==
    /\ fs.pos = "raised"
    /\ fs.log = <<"fail", "sleep", "fail">>
    /\ pc = "raised"

\* C11: a batch call is all-or-nothing.  A call that raised delivers no
\* result list, whatever it had computed; a call that returned delivers a
\* result for every epoch; and the step in which an epoch fails raises at
\* once, with the same epoch not queried again, and nothing follows it in
\* the call.
C11_AllOrNothing ==
    /\ [](/\ pc = "raised" => ret \in {Raised("SpiceError"), Raised("TypeError")}
          /\ pc = "returned" => (ret.status = "ok" /\ Len(ret.value) = Len(utc_times)))
    /\ [][/\ (pc = "id_loop" /\ pc' = "raised") =>
                (idx' = idx /\ moon_datas' = moon_datas /\ ret' = Raised("SpiceError"))
          /\ pc = "raised" => pc' = "entry"]_vars

C11_Witness ==
    /\ pc = "raised"
    /\ stage = "id"
    /\ Len(utc_times) = 2
    /\ Len(moon_datas) = 1
    /\ ret = Raised("SpiceError")

\* C12: the order of a run with at least one epoch.  The series is written,
\* and its file closed, with the old file removed and kernels loaded for the
\* builder's queries; the custom kernel is loaded after the file is closed
\* and after every basic and Moon kernel; every per-epoch query and boddef
\* is made with the basic, Moon and custom kernels loaded; the call returns
\* only after the last query, with the loaded set cleared.
C12_LifeCycle ==
    [][/\ (stage = "builder" /\ pc = "furnsh" /\ pc' = "id") =>
              /\ file = NoFile /\ file'.exists
              /\ loaded # {} /\ loaded' = {}
              /\ {"spkopn", "spkw09", "spkcls", "kclear"} \subseteq trace'
       /\ (CustomPath \in loaded' /\ CustomPath \notin loaded) =>
              /\ file.exists /\ "spkcls" \in trace
              /\ \A k \in Range(PathsOf(call.kernels_path, BASIC_KERNELS \o MOON_KERNELS)) :
                    k \in loaded
       /\ ((pc = "id_loop" /\ idx <= Len(utc_times)) \/ pc' = "id_loop") =>
              /\ CustomPath \in loaded
              /\ \A k \in Range(PathsOf(call.kernels_path, BASIC_KERNELS \o MOON_KERNELS)) :
                    k \in loaded
       /\ (pc' = "returned" /\ pc # "returned" /\ Len(utc_times') > 0) =>
              /\ pc = "id_loop" /\ idx > Len(utc_times)
              /\ "query" \in trace
              /\ loaded' = {} /\ "kclear" \in trace'
      ]_vars

C12_Witness ==
    /\ pc = "returned"
    /\ Len(utc_times) = 2
    /\ {"remove", "spkw09", "spkcls", "furnsh", "boddef", "query", "kclear"} \subseteq trace
    /\ Len(ret.value) = 2
    /\ file.exists
    /\ loaded = {}


-----------------------------------------------------------------------------
(* Claims on the xyzs specification.                                       *)

\* C14: get_moon_datas_xyzs returns exactly one result per input time in dts,
\* in input order, the i-th result computed from xyzs[i] and dts[i], whatever
\* the lists xyzs and dts are.
C14_OnePerInputTime ==
    (pc = "returned" /\ call.entry = "get_moon_datas_xyzs") =>
        /\ ret.status = "ok"
        /\ Len(ret.value) = Len(call.dts)
        /\ \A i \in 1..Len(ret.value) :
              ret.value[i] =
                  xyzs_moon_data(call.xyzs[i], call.dts[i], call.source_frame,
                                 call.target_frame, call.angular_frame,
                                 call.intercept_ellipsoid, call.nan_point)

\* C15: every result get_moon_datas_xyzs returns has the observer's
\* selenographic longitude in [-180, 180] and latitude in [-90, 90], with the
\* ellipsoid intercept and without it.
C15_ObserverInRange ==
    (pc = "returned" /\ call.entry = "get_moon_datas_xyzs") =>
        \A i \in 1..Len(ret.value) :
            /\ ~ret.value[i].lon_obs.nan => ret.value[i].lon_obs.v \in -180..180
            /\ ~ret.value[i].lat_obs.nan => ret.value[i].lat_obs.v \in -90..90

\* C16: get_moon_datas_xyzs_no_zenith_azimuth returns an ordered list of
\* results, one per input time, in which zenith and azimuth are omitted and
\* every other field equals what get_moon_datas_xyzs computes for the same
\* xyzs, dts, kernels_path, source_frame and target_frame (its angular_frame
\* then "ITRF93" and its intercept_ellipsoid True, geoselenic.py:190-198).
C16_NoZenithAzimuth ==
    (pc = "returned" /\ call.entry = "get_moon_datas_xyzs_no_zenith_azimuth") =>
        /\ ret.status = "ok"
        /\ Len(ret.value) = Len(call.dts)
        /\ \A i \in 1..Len(ret.value) :
              LET md == xyzs_moon_data(call.xyzs[i], call.dts[i], call.source_frame,
                                       call.target_frame, ITRF93, TRUE, call.nan_point)
              IN  /\ DOMAIN ret.value[i] = DOMAIN md \ {"zenith", "azimuth"}
                  /\ \A f \in DOMAIN ret.value[i] : ret.value[i][f] = md[f]

\* C17: an observer position that coincides with the Moon's centre is reported
\* as a computation error: a call with such a position does not return, and no
\* result that is returned holds a NaN.
C17_DegeneracyReported ==
    (pc = "returned" /\ call.entry = "get_moon_datas_xyzs") =>
        /\ \A i \in 1..Len(ret.value) :
              LET obs_body == IF Contains(MOON, call.source_frame)
                                 /\ Contains(MOON, call.target_frame)
                              THEN "MOON" ELSE "EARTH"
              IN  call.xyzs[i] # spkpos_xyzs("MOON", str2et(call.dts[i].utc),
                                             call.source_frame, obs_body)
        /\ \A i \in 1..Len(ret.value) :
              /\ ~ret.value[i].lon_obs.nan
              /\ ~ret.value[i].lat_obs.nan
              /\ ~ret.value[i].mpa_deg.nan

-----------------------------------------------------------------------------
(* Claims on the custom kernel and on the loaded set.                      *)

\* C24: once the custom kernel of a call is written, every requested epoch e
\* is a sample epoch of its series together with the other samples of e's
\* window, and e and e + 1 s lie inside that window and inside the interval
\* [first sample, last sample] the segment covers.
C24_EpochsCovered ==
    "spkw09" \in trace =>
        \A i \in 1..Len(utc_times) :
            LET e == str2et(utc_times[i].utc)
            IN  /\ InArray(e, file.seg.epochs)
                /\ \A k \in (-left_states)..(right_states - 1) :
                       InArray(e + Sec(k * delta_t), file.seg.epochs)
                /\ e + Sec(1) <= e + Sec((right_states - 1) * delta_t)
                /\ file.seg.first <= e
                /\ e + Sec(1) <= file.seg.last

C24_Witness ==
    /\ pc = "returned"
    /\ "spkw09" \in trace
    /\ call.times = <<Dt, Str(13)>>
    /\ file.seg.n = 2 * min_states_polynomial
    /\ file.seg.first = str2et(13) - Sec(left_states * delta_t)
    /\ file.seg.last = str2et(dt_to_str_one(Dt).utc) + Sec((right_states - 1) * delta_t)

\* C26: when a step of a call fails after a kernel has been loaded, the
\* loaded set is cleared before the error reaches the caller: at every raised
\* call the loaded set is empty.
C26_ClearedOnError ==
    pc = "raised" => loaded = {}

\* C27: _create_earth_point_kernel leaves the module-level list of basic
\* kernels unchanged, and the kernels get_moon_datas_id then queues for loading
\* are the basic kernels, the Moon kernels and the custom kernel, once each,
\* whatever the frames of the call are.
C27_BasicKernelsUnchanged ==
    /\ basicKernels = BASIC_KERNELS
    /\ (pc = "furnsh" /\ stage = "id" /\ fs = FsIdle) =>
            kq = PathsOf(call.kernels_path, BASIC_KERNELS \o MOON_KERNELS)
                     \o <<CustomPath>>

=============================================================================
